---- MODULE Spec2Model ----
(***************************************************************************)
(* Model of openbackdoor/trainers/trainer.py: one call of Trainer.train,   *)
(* with train_one_epoch unrolled one batch per step, checkpoint files,     *)
(* the hidden-state capture and the visualisation step.                    *)
(*                                                                         *)
(* Abstractions:                                                           *)
(*  - model weights are the number of effective optimizer updates applied  *)
(*    so far (optimizer.step() changes a parameter only if it has a        *)
(*    gradient, and gradients exist only after loss.backward());           *)
(*  - a loss is a positive integer number of loss units; after the         *)
(*    division of line 115 it is the rational loss / g, so total_loss is   *)
(*    kept as a numerator over the denominator LossDen(g);                 *)
(*  - a dev score is an integer number of score units in 0..MaxScore;      *)
(*  - split names are sequences of one-character strings.                  *)
(***************************************************************************)
EXTENDS Integers, Sequences, FiniteSets, TLC

----------------------------------------------------------------------------
(* Bounds of the model *)
MaxEpochs == 2
MaxD == 8
MaxG == 3
MaxLoss == 2
MaxScore == 2

(* Program constants *)
HiddenBatch == 32
BatchSizes == {2, 4}

----------------------------------------------------------------------------
(* Split names *)
N_train == <<"t", "r", "a", "i", "n">>
N_dev == <<"d", "e", "v">>
N_dev_a == <<"d", "e", "v", "-", "a">>
N_dev_b == <<"d", "e", "v", "-", "b">>
N_development == <<"d", "e", "v", "e", "l", "o", "p", "m", "e", "n", "t">>
N_test_dev == <<"t", "e", "s", "t", "-", "d", "e", "v">>

OtherNames == {N_dev, N_dev_a, N_dev_b, N_development, N_test_dev}
AllNames == OtherNames \cup {N_train}

Min(S) == CHOOSE x \in S : \A y \in S : x <= y
Max(S) == CHOOSE x \in S : \A y \in S : x >= y

(* key.split("-")[0]: the part of key before the first "-", or all of key *)
Split0(key) ==
    LET seps == {i \in 1..Len(key) : key[i] = "-"}
    IN  IF seps = {} THEN key ELSE SubSeq(key, 1, Min(seps) - 1)

(* faulty variant: prefix match instead of the separator cut *)
IsDevSplit_prefix(key) ==
    Len(key) >= 3 /\ SubSeq(key, 1, 3) = <<"d", "e", "v">>

(* line 146: key.split("-")[0] == "dev" *)
IsDevSplit(key) == Split0(key) = <<"d", "e", "v">>

(* lines 144-147: eval_dataloader keeps the keys that pass the test *)
EvalKeys(names) == {k \in names : IsDevSplit(k)}

----------------------------------------------------------------------------
(* len(DataLoader(dataset, batch_size)) without drop_last: ceil(n / bs) *)
NumBatches(n, bs) == (n + bs - 1) \div bs

(* faulty variant: the step test taken on the 0-based index *)
IsStepBatch_zero_based(stp, g) == stp % g = 0

(* line 119: (step + 1) % gradient_accumulation_steps == 0 *)
IsStepBatch(stp, g) == (stp + 1) % g = 0

(* lines 114-115: the loss is divided by g only when g > 1 *)
LossDen(g) == IF g > 1 THEN g ELSE 1

(* faulty variant: the loss is accumulated on every batch *)
AccumLoss_every_batch(total, loss, stepping) == total + loss

(* lines 119, 123: total_loss += loss.item() inside the step branch *)
AccumLoss(total, loss, stepping) == IF stepping THEN total + loss ELSE total

(* line 126: avg_loss = total_loss / len(epoch_iterator), as a fraction     *)
(* <<numerator, denominator>>; the caller has checked n_batches # 0         *)
AvgLoss(total, g, n_batches) == <<total, LossDen(g) * n_batches>>

(* faulty variant: every evaluation replaces the best score *)
UpdateBest_always(best, score) == score

(* lines 172-173 *)
UpdateBest(best, score) == IF score > best THEN score ELSE best

(* faulty variant: a tie with the best score also saves *)
SaveInEpoch_on_tie(policy, score, best) == score >= best /\ policy = "best"

(* faulty variant: the score is compared with the initial best, not the running one *)
SaveInEpoch_vs_initial(policy, score, best) == score > 0 /\ policy = "best"

(* faulty variant: the policy is not consulted *)
SaveInEpoch_any_policy(policy, score, best) == score > best

(* lines 172-175: torch.save inside the epoch loop *)
SaveInEpoch(policy, score, best) == score > best /\ policy = "best"

(* faulty variant: the flag is ignored *)
VisualizeEnabled_always(flag) == TRUE

(* lines 152, 168, 177: if self.visualize_flag *)
VisualizeEnabled(flag) == flag

(* lines 213-251: compute_hidden over a loader of n examples.  The list    *)
(* hidden_state of line 229 is rebound to the last-layer tensor at line    *)
(* 238, and line 249 calls .extend on that tensor: the first batch raises  *)
(* AttributeError.  With no batch the three empty lists are returned.      *)
ComputeHidden(n) ==
    IF NumBatches(n, HiddenBatch) = 0
    THEN [ok |-> TRUE, hidden |-> 0, labels |-> 0]
    ELSE [ok |-> FALSE, hidden |-> 0, labels |-> 0]

(* A file path: directory, file name, and the N of epoch_<N>.png *)
Path(dir, name, n) == [dir |-> dir, name |-> name, n |-> n]

(* lines 314-315: model_checkpoint(ckpt) = <save_path>/<ckpt>.ckpt *)
ModelCheckpoint(policy) == Path("save_path", policy, 0)

(* lines 181-183: the three arrays saved under ./hidden_states *)
HiddenFiles ==
    {Path("./hidden_states", nm, 0) :
        nm \in {"hidden_states.npy", "labels.npy", "poison_labels.npy"}}

(* lines 279-308: one epoch_<N>.png per slice under ./visualization *)
ImageFiles(n) == {Path("./visualization", "epoch.png", i) : i \in 0..(n - 1)}

----------------------------------------------------------------------------
(* State *)
VARIABLES
    ckpt,               \* self.ckpt: "best" or "last"
    visualize_flag,     \* self.visualize_flag
    epochs,             \* self.epochs
    batch_size,         \* self.batch_size
    gas,                \* self.gradient_accumulation_steps
    train_size,         \* number of examples of dataset["train"]
    split_names,        \* keys of the mapping wrap_dataset returns
    pc,                 \* position in Trainer.train
    err,                \* the exception that aborted the run, or "none"
    eval_dataloader,    \* keys of eval_dataloader (lines 144-147)
    best_dev_score,     \* line 150
    epoch,              \* number of epochs completed
    step,               \* number of batches consumed in the current epoch
    total_loss,         \* numerator of total_loss (denominator LossDen(gas))
    avg_loss,           \* what train_one_epoch returned, <<num, den>>
    losses,             \* losses of the batches of the current epoch
    events,             \* calls made by the current train_one_epoch
    grad,               \* TRUE when the parameters hold a gradient
    weights,            \* the live model's parameters
    ckpt_file,          \* contents of best.ckpt and last.ckpt: <<>> or <<w>>
    writes,             \* log of torch.save calls
    files,              \* every path written by the run
    hidden_len,         \* len(self.hidden_state)
    labels_len,         \* len(self.labels)
    hidden_calls,       \* number of compute_hidden calls
    vis_calls,          \* visualize calls: sequence of len(hidden_state)
    images,             \* number of images saved by visualize
    history,            \* one record per evaluated epoch
    load_attempted      \* torch.load of line 191 was reached

cfg == <<ckpt, visualize_flag, epochs, batch_size, gas, train_size, split_names>>
vars == <<ckpt, visualize_flag, epochs, batch_size, gas, train_size,
          split_names, pc, err, eval_dataloader, best_dev_score, epoch, step,
          total_loss, avg_loss, losses, events, grad, weights, ckpt_file,
          writes, files, hidden_len, labels_len, hidden_calls, vis_calls,
          images, history, load_attempted>>

(* len(train_dataloader) *)
TrainLen == NumBatches(train_size, batch_size)

(* The state at the call of train on a freshly constructed Trainer: the     *)
(* run directory was just created by os.mkdir (lines 59-61), so it is empty *)
InitRun ==
    /\ pc = "start"
    /\ err = "none"
    /\ eval_dataloader = {}
    /\ best_dev_score = 0
    /\ epoch = 0
    /\ step = 0
    /\ total_loss = 0
    /\ avg_loss = <<>>
    /\ losses = <<>>
    /\ events = <<>>
    /\ grad = FALSE
    /\ weights = 0
    /\ ckpt_file = [p \in {"best", "last"} |-> <<>>]
    /\ writes = <<>>
    /\ files = {}
    /\ hidden_len = 0
    /\ labels_len = 0
    /\ hidden_calls = 0
    /\ vis_calls = <<>>
    /\ images = 0
    /\ history = <<>>
    /\ load_attempted = FALSE

Init ==
    /\ ckpt \in {"best", "last"}
    /\ visualize_flag \in BOOLEAN
    /\ epochs \in 0..MaxEpochs
    /\ batch_size \in BatchSizes
    /\ gas \in 1..MaxG
    /\ train_size \in 0..MaxD
    /\ split_names \in {{N_train, N_dev}, AllNames}
    /\ InitRun

(* Every set of split names, on one training configuration per size *)
InitSplits ==
    /\ ckpt \in {"best", "last"}
    /\ visualize_flag \in BOOLEAN
    /\ epochs \in 0..MaxEpochs
    /\ batch_size = 4
    /\ gas = 1
    /\ train_size \in {0, MaxD}
    /\ split_names \in {S \cup {N_train} : S \in SUBSET OtherNames}
    /\ InitRun

----------------------------------------------------------------------------
(* Trainer.train, lines 142-150: wrap the dataset, select the dev splits,   *)
(* register (model.train(), model.zero_grad()), best_dev_score = 0          *)
TrainBegin ==
    /\ pc = "start"
    /\ eval_dataloader' = EvalKeys(split_names)
    /\ grad' = FALSE
    /\ best_dev_score' = 0
    /\ pc' = IF VisualizeEnabled(visualize_flag) THEN "baseline" ELSE "loop"
    /\ UNCHANGED <<cfg, err, epoch, step, total_loss, avg_loss, losses, events,
                   weights, ckpt_file, writes, files, hidden_len, labels_len,
                   hidden_calls, vis_calls, images, history, load_attempted>>

(* lines 152-160: the baseline snapshot over the unshuffled training split *)
Baseline ==
    /\ pc = "baseline"
    /\ LET r == ComputeHidden(train_size)
       IN  /\ hidden_calls' = hidden_calls + 1
           /\ IF r.ok
              THEN /\ hidden_len' = r.hidden
                   /\ labels_len' = r.labels
                   /\ pc' = "loop"
                   /\ err' = err
              ELSE /\ pc' = "aborted"
                   /\ err' = "AttributeError"
                   /\ UNCHANGED <<hidden_len, labels_len>>
    /\ UNCHANGED <<cfg, eval_dataloader, best_dev_score, epoch, step,
                   total_loss, avg_loss, losses, events, grad, weights,
                   ckpt_file, writes, files, vis_calls, images, history,
                   load_attempted>>

(* lines 162-164 and 106-107: enter train_one_epoch, total_loss = 0 *)
EpochBegin ==
    /\ pc = "loop"
    /\ epoch < epochs
    /\ pc' = "batch"
    /\ step' = 0
    /\ total_loss' = 0
    /\ avg_loss' = <<>>
    /\ losses' = <<>>
    /\ events' = <<>>
    /\ UNCHANGED <<cfg, err, eval_dataloader, best_dev_score, epoch, grad,
                   weights, ckpt_file, writes, files, hidden_len, labels_len,
                   hidden_calls, vis_calls, images, history, load_attempted>>

(* lines 108-124: the body of the batch loop for batch number step (0-based) *)
TrainBatch ==
    /\ pc = "batch"
    /\ step < TrainLen
    /\ \E loss \in 1..MaxLoss :
        LET b == step + 1
            backward == ~(gas > 1)
            g1 == IF backward THEN TRUE ELSE grad
            stepping == IsStepBatch(step, gas)
            ev1 == IF backward THEN <<<<"backward", b>>>> ELSE <<>>
            ev2 == IF stepping
                   THEN <<<<"clip", b>>, <<"optimizer", b>>,
                          <<"scheduler", b>>, <<"zero_grad", b>>>>
                   ELSE <<>>
        IN  /\ losses' = Append(losses, loss)
            /\ events' = events \o ev1 \o ev2
            /\ total_loss' = AccumLoss(total_loss, loss, stepping)
            /\ weights' = IF stepping /\ g1 THEN weights + 1 ELSE weights
            /\ grad' = IF stepping THEN FALSE ELSE g1
    /\ step' = step + 1
    /\ UNCHANGED <<cfg, pc, err, eval_dataloader, best_dev_score, epoch,
                   avg_loss, ckpt_file, writes, files, hidden_len, labels_len,
                   hidden_calls, vis_calls, images, history, load_attempted>>

(* lines 126-127: the loop is exhausted; avg_loss = total_loss / len(...) *)
EpochEnd ==
    /\ pc = "batch"
    /\ step = TrainLen
    /\ IF TrainLen = 0
       THEN /\ pc' = "aborted"
            /\ err' = "ZeroDivisionError"
            /\ avg_loss' = avg_loss
       ELSE /\ pc' = "eval"
            /\ err' = err
            /\ avg_loss' = AvgLoss(total_loss, gas, TrainLen)
    /\ UNCHANGED <<cfg, eval_dataloader, best_dev_score, epoch, step,
                   total_loss, losses, events, grad, weights, ckpt_file,
                   writes, files, hidden_len, labels_len, hidden_calls,
                   vis_calls, images, history, load_attempted>>

(* lines 165-175: evaluate on the dev splits, append a hidden-state         *)
(* snapshot, update the best score and save under policy "best".  The      *)
(* per-epoch logs and epoch_loss are dead after line 165 and are cleared.   *)
Evaluate ==
    /\ pc = "eval"
    /\ \E dev_score \in 0..MaxScore :
        LET vis == VisualizeEnabled(visualize_flag)
            r == ComputeHidden(train_size)
            save == SaveInEpoch(ckpt, dev_score, best_dev_score)
        IN  IF vis /\ ~r.ok
            THEN /\ pc' = "aborted"
                 /\ err' = "AttributeError"
                 /\ hidden_calls' = hidden_calls + 1
                 /\ UNCHANGED <<best_dev_score, epoch, ckpt_file, writes,
                                files, hidden_len, history, avg_loss, losses,
                                events>>
            ELSE /\ pc' = "loop"
                 /\ err' = err
                 /\ hidden_calls' = IF vis THEN hidden_calls + 1
                                    ELSE hidden_calls
                 /\ hidden_len' = IF vis THEN hidden_len + r.hidden
                                  ELSE hidden_len
                 /\ best_dev_score' = UpdateBest(best_dev_score, dev_score)
                 /\ ckpt_file' = IF save
                                 THEN [ckpt_file EXCEPT ![ckpt] = <<weights>>]
                                 ELSE ckpt_file
                 /\ writes' = IF save
                              THEN Append(writes, [file |-> ckpt,
                                                   epoch |-> epoch + 1,
                                                   in_loop |-> TRUE,
                                                   data |-> weights])
                              ELSE writes
                 /\ files' = IF save THEN files \cup {ModelCheckpoint(ckpt)}
                             ELSE files
                 /\ history' = Append(history,
                                      [score |-> dev_score,
                                       weights |-> weights,
                                       splits |-> eval_dataloader])
                 /\ epoch' = epoch + 1
                 /\ avg_loss' = <<>>
                 /\ losses' = <<>>
                 /\ events' = <<>>
    /\ UNCHANGED <<cfg, eval_dataloader, step, total_loss, grad, weights,
                   labels_len, vis_calls, images, load_attempted>>

(* lines 177-185 and 253-310: save the arrays, then visualize *)
VisualizeRun ==
    /\ pc = "loop"
    /\ epoch = epochs
    /\ VisualizeEnabled(visualize_flag)
    /\ vis_calls' = Append(vis_calls, hidden_len)
    /\ IF labels_len = 0
       THEN /\ pc' = "aborted"
            /\ err' = "ZeroDivisionError"
            /\ images' = images
            /\ files' = files \cup HiddenFiles
       ELSE /\ pc' = "final"
            /\ err' = err
            /\ images' = hidden_len \div labels_len
            /\ files' = files \cup HiddenFiles
                               \cup ImageFiles(hidden_len \div labels_len)
    /\ UNCHANGED <<cfg, eval_dataloader, best_dev_score, epoch, step,
                   total_loss, avg_loss, losses, events, grad, weights,
                   ckpt_file, writes, hidden_len, labels_len, hidden_calls,
                   history, load_attempted>>

(* lines 187-194: save under policy "last", reload the policy's file *)
Finish ==
    /\ \/ pc = "final"
       \/ pc = "loop" /\ epoch = epochs /\ ~VisualizeEnabled(visualize_flag)
    /\ LET last == ckpt = "last"
           f == IF last THEN [ckpt_file EXCEPT !["last"] = <<weights>>]
                ELSE ckpt_file
       IN  /\ ckpt_file' = f
           /\ writes' = IF last
                        THEN Append(writes, [file |-> "last",
                                             epoch |-> epoch,
                                             in_loop |-> FALSE,
                                             data |-> weights])
                        ELSE writes
           /\ files' = IF last THEN files \cup {ModelCheckpoint("last")}
                       ELSE files
           /\ load_attempted' = TRUE
           /\ IF f[ckpt] = <<>>
              THEN /\ pc' = "aborted"
                   /\ err' = "FileNotFoundError"
                   /\ weights' = weights
              ELSE /\ pc' = "done"
                   /\ err' = err
                   /\ weights' = f[ckpt][1]
    /\ UNCHANGED <<cfg, eval_dataloader, best_dev_score, epoch, step,
                   total_loss, avg_loss, losses, events, grad, hidden_len,
                   labels_len, hidden_calls, vis_calls, images, history>>

Next ==
    \/ TrainBegin
    \/ Baseline
    \/ EpochBegin
    \/ TrainBatch
    \/ EpochEnd
    \/ Evaluate
    \/ VisualizeRun
    \/ Finish

Spec == Init /\ [][Next]_vars

SpecSplits == InitSplits /\ [][Next]_vars

----------------------------------------------------------------------------
(* Vocabulary of the properties *)

(* The best score before epoch k: 0, or the greatest earlier score *)
PrevBest(k) == Max({0} \cup {history[j].score : j \in 1..(k - 1)})

(* A checkpoint was written inside the loop during epoch k *)
WroteInEpoch(k) ==
    \E i \in DOMAIN writes : writes[i].in_loop /\ writes[i].epoch = k

(* The run returned from train *)
Returned == pc = "done"

(* The run is over, by return or by an exception *)
Ended == pc \in {"done", "aborted"}

RECURSIVE SumSeq(_)
SumSeq(q) == IF q = <<>> THEN 0 ELSE q[1] + SumSeq(Tail(q))

(* Equality of two fractions <<numerator, denominator>> *)
RatEq(a, b) == a[1] * b[2] = b[1] * a[2]

----------------------------------------------------------------------------
(* C1: within one call of train, best_dev_score never decreases: its value  *)
(* after any step, hence after epoch k, is at least its value before, and   *)
(* at least the initial value 0.                                            *)
C1_BestMonotone == [][best_dev_score' >= best_dev_score]_vars

(* C1 witness: two epochs evaluated, the second scored lower than the       *)
(* first, and the best score is still the first one.                        *)
C1_Witness ==
    /\ Len(history) >= 2
    /\ history[1].score > 0
    /\ history[2].score < history[1].score
    /\ best_dev_score = history[1].score

(* C2 as stated: in every epoch, under either policy, a checkpoint is       *)
(* written during the epoch iff its dev score strictly exceeds the best     *)
(* score before it.                                                         *)
C2_Original ==
    \A k \in DOMAIN history : WroteInEpoch(k) <=> history[k].score > PrevBest(k)

(* C2 amended: a checkpoint is written during an epoch iff the policy is    *)
(* "best" and the epoch's dev score strictly exceeds the best score before  *)
(* it (0 before the first epoch); under "last" no epoch writes one.         *)
C2_Amended ==
    \A k \in DOMAIN history :
        WroteInEpoch(k) <=> (ckpt = "best" /\ history[k].score > PrevBest(k))

(* C2 witness: under "best", an improving epoch that wrote and a later      *)
(* epoch that tied and did not.                                             *)
C2_Witness ==
    /\ ckpt = "best"
    /\ Len(history) >= 2
    /\ history[1].score > 0
    /\ history[2].score = history[1].score
    /\ WroteInEpoch(1)
    /\ ~WroteInEpoch(2)

(* C3: under policy "last" no checkpoint is written inside the epoch loop,  *)
(* not even at improving epochs; the only write is of last.ckpt, made once  *)
(* all epochs have been evaluated; a run that returns made exactly one.     *)
C3_LastWritesOnce ==
    ckpt = "last" =>
        /\ \A i \in DOMAIN writes :
              /\ ~writes[i].in_loop
              /\ writes[i].file = "last"
              /\ writes[i].epoch = epochs
              /\ Len(history) = epochs
        /\ \A k \in DOMAIN history : ~WroteInEpoch(k)
        /\ Len(writes) <= 1
        /\ Returned => Len(writes) = 1
        /\ ~Ended => Len(writes) = 0

(* C3 witness: a returned run under "last" whose first epoch improved on    *)
(* the initial best and which wrote once.                                   *)
C3_Witness ==
    /\ ckpt = "last"
    /\ Returned
    /\ Len(history) >= 2
    /\ history[1].score > PrevBest(1)
    /\ history[2].score > PrevBest(2)
    /\ Len(writes) = 1

(* Epochs whose score strictly exceeds every earlier score of the run *)
RecordEpochs ==
    {k \in DOMAIN history : \A j \in 1..(k - 1) : history[k].score > history[j].score}

(* Epochs whose score strictly exceeds every earlier score and the initial  *)
(* best score 0 *)
ImprovingEpochs ==
    {k \in DOMAIN history :
        /\ history[k].score > 0
        /\ \A j \in 1..(k - 1) : history[k].score > history[j].score}

(* The earliest epoch that attained the maximum dev score of the run *)
EarliestMaxEpoch ==
    Min({k \in DOMAIN history :
            \A j \in DOMAIN history : history[k].score >= history[j].score})

(* C4 as stated: under "best", when some epoch improves on the previous     *)
(* best, the number of writes is the number of epochs whose score exceeds   *)
(* all earlier scores, and the returned model holds the weights of the      *)
(* earliest epoch that attained the maximum score.                          *)
C4_Original ==
    (ckpt = "best" /\ Returned /\ ImprovingEpochs # {}) =>
        /\ Len(writes) = Cardinality(RecordEpochs)
        /\ weights = history[EarliestMaxEpoch].weights

(* C4 amended: as C4, counting the epochs whose score strictly exceeds all  *)
(* earlier scores and the initial best score 0.                             *)
C4_Amended ==
    (ckpt = "best" /\ Returned /\ ImprovingEpochs # {}) =>
        /\ Len(writes) = Cardinality(ImprovingEpochs)
        /\ weights = history[EarliestMaxEpoch].weights

(* C4 witness: scores that fall after the first epoch, one write, and the   *)
(* returned weights are those of epoch 1, not those of the last epoch.      *)
C4_Witness ==
    /\ ckpt = "best"
    /\ Returned
    /\ Len(history) = 2
    /\ history[1].score > history[2].score
    /\ Len(writes) = 1
    /\ weights = history[1].weights
    /\ weights # history[2].weights

(* C5 as stated: every run that completes its epochs (here at least one,    *)
(* with visualization off) reaches the reload, the policy's file was        *)
(* written earlier in the run, and the run returns with the file's weights  *)
(* loaded.                                                                  *)
C5_Original ==
    (Ended /\ epochs >= 1 /\ epoch = epochs /\ ~visualize_flag) =>
        /\ load_attempted
        /\ \E i \in DOMAIN writes : writes[i].file = ckpt
        /\ Returned
        /\ ckpt_file[ckpt] = <<weights>>

(* Losses of the batches on which an optimizer step was taken *)
SteppedLossSum ==
    SumSeq([i \in 1..Len(losses) |-> IF i % gas = 0 THEN losses[i] ELSE 0])

(* C6: train_one_epoch returns (sum of the losses of the batches whose      *)
(* 1-based index is a multiple of g, each divided by g when g > 1) / B,     *)
(* and that differs from dividing by the number of optimizer steps when     *)
(* the two counts differ and the sum is not 0.                              *)
C6_AvgLoss ==
    pc = "eval" =>
        /\ Len(losses) = TrainLen
        /\ RatEq(avg_loss, <<SteppedLossSum,
                             (IF gas > 1 THEN gas ELSE 1) * TrainLen>>)
        /\ (TrainLen \div gas \notin {0, TrainLen}) =>
              ~RatEq(avg_loss, <<SteppedLossSum,
                                 (IF gas > 1 THEN gas ELSE 1)
                                    * (TrainLen \div gas)>>)

(* C6 witness: three batches with g = 2: one optimizer step, one batch      *)
(* after it, and a returned average.                                        *)
C6_Witness ==
    /\ pc = "eval"
    /\ gas = 2
    /\ TrainLen = 3
    /\ avg_loss[1] = losses[2]
    /\ avg_loss[2] = 6

(* The names that are "dev" or start with "dev-" *)
DevNamed(names) ==
    {n \in names :
        \/ n = N_dev
        \/ Len(n) >= 4 /\ SubSeq(n, 1, 4) = <<"d", "e", "v", "-">>}

(* C7: the splits passed to the evaluator are exactly the split names that  *)
(* are "dev" or begin with "dev-": dev, dev-a and dev-b when present,       *)
(* never development, train or test-dev; the same set in every epoch.       *)
C7_DevSplits ==
    /\ pc # "start" => eval_dataloader = DevNamed(split_names)
    /\ \A k \in DOMAIN history :
          /\ history[k].splits = DevNamed(split_names)
          /\ history[k].splits \cap {N_development, N_train, N_test_dev} = {}
          /\ split_names \cap {N_dev, N_dev_a, N_dev_b} \subseteq history[k].splits
          /\ history[k].splits = history[1].splits

(* C7 witness: all six names present, two epochs evaluated on dev, dev-a    *)
(* and dev-b.                                                               *)
C7_Witness ==
    /\ split_names = AllNames
    /\ Len(history) = 2
    /\ history[2].splits = {N_dev, N_dev_a, N_dev_b}

(* C8: with visualization disabled, compute_hidden and visualize are never  *)
(* called and every file written is best.ckpt or last.ckpt in the run's     *)
(* own directory.                                                           *)
C8_NoVisualization ==
    ~visualize_flag =>
        /\ hidden_calls = 0
        /\ vis_calls = <<>>
        /\ images = 0
        /\ hidden_len = 0
        /\ \A f \in files : f.dir = "save_path" /\ f.name \in {"best", "last"}

(* C8 witness: a returned run with visualization off that trained an epoch  *)
(* and wrote its checkpoint.                                                *)
C8_Witness ==
    /\ ~visualize_flag
    /\ Returned
    /\ Len(history) >= 1
    /\ files = {ModelCheckpoint(ckpt)}

(* Positions in the call log of the calls of one kind *)
Calls(kind) == {i \in DOMAIN events : events[i][1] = kind}

(* C9: inside train_one_epoch, after n batches the optimizer and the        *)
(* scheduler have each been stepped n div g times (B div g when the epoch   *)
(* returns), only at batches whose 1-based index is a multiple of g, each   *)
(* optimizer step just after a clip, just before the scheduler step, which  *)
(* is followed by zero_grad; 8 examples in batches of 4 with g = 1 give 2.  *)
C9_OptimizerSteps ==
    pc \in {"batch", "eval"} =>
        /\ Cardinality(Calls("optimizer")) = step \div gas
        /\ Cardinality(Calls("scheduler")) = step \div gas
        /\ pc = "eval" => Cardinality(Calls("optimizer")) = TrainLen \div gas
        /\ \A i \in Calls("optimizer") :
              /\ events[i][2] % gas = 0
              /\ i > 1 /\ events[i - 1] = <<"clip", events[i][2]>>
              /\ i + 2 <= Len(events)
              /\ events[i + 1] = <<"scheduler", events[i][2]>>
              /\ events[i + 2] = <<"zero_grad", events[i][2]>>
        /\ \A i \in Calls("scheduler") : i - 1 \in Calls("optimizer")
        /\ \A i \in Calls("optimizer"), j \in Calls("optimizer") :
              events[i][2] = events[j][2] => i = j
        /\ (pc = "eval" /\ train_size = 8 /\ batch_size = 4 /\ gas = 1) =>
              Cardinality(Calls("optimizer")) = 2

(* C9 witness: three batches with g = 2 done: one optimizer step, taken at  *)
(* batch 2, none at batch 3.                                                *)
C9_Witness ==
    /\ pc = "eval"
    /\ gas = 2
    /\ TrainLen = 3
    /\ Cardinality(Calls("optimizer")) = 1
    /\ \E i \in Calls("optimizer") : events[i][2] = 2

(* C10 as stated: with visualization enabled, a run of E epochs over D      *)
(* training examples ends having handed visualize a history of length       *)
(* E * D and having saved E images.                                         *)
C10_Original ==
    (visualize_flag /\ Ended) =>
        /\ Len(vis_calls) = 1
        /\ vis_calls[1] = epochs * train_size
        /\ images = epochs

====
